---- MODULE Spec2Model ----
(***************************************************************************)
(* Registry installation pipeline of liftkit-cli:                          *)
(*   - RegistryProcessor (source/lib/registry-processor.ts): collect,      *)
(*     conflict check, single confirmation prompt, write phase, npm        *)
(*     installation, processed-URL set;                                    *)
(*   - dependency graph builder (source/lib/registry-process.ts):          *)
(*     buildDependencyTree, calculateInstallationOrder.                    *)
(* Strings are sequences of tokens, paths are sequences of segments.       *)
(***************************************************************************)
EXTENDS Integers, Sequences, FiniteSets, TLC

VARIABLES
  options,          \* RegistryProcessor.options (constructor options)
  componentsConfig, \* RegistryProcessor.componentsConfig
  fs,               \* the file system below baseDir: path -> entry
  processedUrls,    \* RegistryProcessor.processedUrls
  item,             \* the registry item handed to processRegistryItem
  phase,            \* position of the processRegistryItem call
  pendingFiles,     \* pendingFiles of the running call
  prompted,         \* target paths listed by handleFileConflicts, in order
  result,           \* what the call returned or threw
  calls,            \* number of processRegistryItem calls started
  prompts,          \* questions asked by the current call
  answer,           \* the answer the current call received ("none": none yet)
  installs,         \* package-manager invocations of the current call
  writes,           \* writeFileSync calls of the current call (target paths)
  mkdirs,           \* directories created by the current call
  fsBefore,         \* fs when the current call started
  urlsBefore,       \* processedUrls when the current call started
  prevDone,         \* the call before the current one returned normally
  registry,         \* the remote registry: name -> fetch outcome and item
  tcalls,           \* buildDependencyTree invocations: call id -> record
  fetches,          \* fetchRegistryItem requests issued, in order
  outcome,          \* settlement of the root buildDependencyTree promise
  order,            \* names returned by calculateInstallationOrder, if called
  flat,             \* names returned by flattenDependencyTree, if called
  globalsCss,       \* src/app/globals.css below baseDir
  cssVars,          \* the cssVars handed to processCSSVars
  cssBefore,        \* globalsCss when processCSSVars was called
  cssResult,        \* how the processCSSVars call ended
  cssCalls,         \* number of processCSSVars calls made
  astore,           \* add command: what each component reference fetches
  apc,              \* add command: position of addCommand
  adep,             \* add command: index of the dependency being handled
  alog,             \* add command: fetches, calls, writes and log lines so far
  aexit,            \* add command: how the process ended
  aform,            \* add command: references are written as names or as URLs
  vschema,          \* validator: the schema of the schema processor
  vitem,            \* validator: the item handed to validate
  vresult,          \* validator: what validate returned
  rpath,            \* path resolver: the file path handed to resolveTargetPath
  rtarget,          \* path resolver: the path returned, relative to baseDir
  rcontent,         \* content rewriter: the content handed to replaceRegistryPaths
  rrewritten        \* content rewriter: the content returned

pvars == <<options, componentsConfig, fs, processedUrls, item, phase,
           pendingFiles, prompted, result, calls, prompts, answer, installs,
           writes, mkdirs, fsBefore, urlsBefore, prevDone>>
tvars == <<registry, tcalls, fetches, outcome, order, flat>>
cvars == <<globalsCss, cssVars, cssBefore, cssResult, cssCalls>>
avars == <<astore, apc, adep, alog, aexit, aform>>
vvars == <<vschema, vitem, vresult>>
rvars == <<rpath, rtarget, rcontent, rrewritten>>
ovars == <<cvars, avars, vvars, rvars>>
vars == <<pvars, tvars, ovars>>

-----------------------------------------------------------------------------
(* Bounds of the model *)
MaxFiles == 2
MaxCalls == 2
MaxDeps == 2
MaxCssEntries == 2
MaxCssCalls == 2
MaxArrayLen == 2

-----------------------------------------------------------------------------
(* Generic helpers on sequences *)

Range(s) == {s[i] : i \in 1..Len(s)}

IsPrefix(p, s) == Len(p) <= Len(s) /\ SubSeq(s, 1, Len(p)) = p

Front(s) == SubSeq(s, 1, Len(s) - 1)

SeqsUpTo(S, n) == UNION {[1..k -> S] : k \in 0..n}

-----------------------------------------------------------------------------
(* File contents: a string is a sequence of tokens.  A token is a          *)
(* whitespace character, a piece of code text, or an import statement      *)
(* (keyword, opening quote, path segments, closing quote).                 *)

Ws == [kind |-> "ws"]
Txt(t) == [kind |-> "txt", text |-> t]
Stmt(kw, open, path, close) ==
  [kind |-> "stmt", kw |-> kw, open |-> open, path |-> path, close |-> close]

\* String.prototype.trim: strips leading and trailing whitespace
RECURSIVE TrimLeft(_)
TrimLeft(s) ==
  IF s # <<>> /\ Head(s) = Ws THEN TrimLeft(Tail(s)) ELSE s

RECURSIVE TrimRight(_)
TrimRight(s) ==
  IF s # <<>> /\ s[Len(s)] = Ws THEN TrimRight(Front(s)) ELSE s

trim(s) == TrimRight(TrimLeft(s))

compareFileContents(content1, content2) == trim(content1) = trim(content2)

-----------------------------------------------------------------------------
(* Project configuration (components.json) and path resolution *)

\* componentsConfig is null, or an object whose aliases are listed in the
\* order of Object.entries
NoConfig == [loaded |-> FALSE, aliases |-> <<>>]
AliasConfig ==
  [loaded |-> TRUE,
   aliases |-> << [key |-> "components", value |-> <<"@", "components">>],
                  [key |-> "lib", value |-> <<"@", "lib">>] >>]

\* this.componentsConfig?.aliases is truthy
HasAliases(cfg) == cfg.loaded

\* aliases[key] || dflt  (a missing key and the empty string are falsy)
AliasOr(aliases, key, dflt) ==
  LET hits == {i \in 1..Len(aliases) : aliases[i].key = key}
  IN IF hits = {} THEN dflt
     ELSE LET v == aliases[CHOOSE i \in hits : \A j \in hits : j <= i].value
          IN IF v = <<>> THEN dflt ELSE v

\* alias.replace('@/', 'src/'): the first "@/" of the alias becomes "src/"
ReplaceAtSlash(alias) ==
  LET ats == {i \in 1..(Len(alias) - 1) : alias[i] = "@"}
  IN IF ats = {} THEN alias
     ELSE LET i == CHOOSE k \in ats : \A j \in ats : k <= j
          IN [alias EXCEPT ![i] = "src"]

\* filePath.startsWith(prefix + '/')
StartsWithDir(filePath, prefix) ==
  Len(filePath) > Len(prefix) /\ IsPrefix(prefix, filePath)

StripDir(filePath, prefix) == SubSeq(filePath, Len(prefix) + 1, Len(filePath))

\* a resolver that keeps the file name only, whatever the options
resolveTargetPathFlattened(filePath, cfg, opts) == <<filePath[Len(filePath)]>>

\* RegistryProcessor.resolveTargetPath; the result is relative to baseDir
resolveTargetPath(filePath, cfg, opts) ==
  LET comp == <<"registry", "nextjs", "components">>
      ulib == <<"registry", "universal", "lib">>
      nlib == <<"registry", "nextjs", "lib">>
  IN IF HasAliases(cfg) /\ StartsWithDir(filePath, comp)
       THEN ReplaceAtSlash(AliasOr(cfg.aliases, "components", <<"@", "components">>))
              \o StripDir(filePath, comp)
     ELSE IF HasAliases(cfg) /\ StartsWithDir(filePath, ulib)
       THEN ReplaceAtSlash(AliasOr(cfg.aliases, "lib", <<"@", "lib">>))
              \o StripDir(filePath, ulib)
     ELSE IF HasAliases(cfg) /\ StartsWithDir(filePath, nlib)
       THEN ReplaceAtSlash(AliasOr(cfg.aliases, "lib", <<"@", "lib">>))
              \o StripDir(filePath, nlib)
     ELSE IF opts.preserveSubdirectories THEN filePath
     ELSE <<filePath[Len(filePath)]>>

-----------------------------------------------------------------------------
(* Content rewriting *)

defaultMappings ==
  << [directoryName |-> "components", targetAlias |-> <<"@", "components">>],
     [directoryName |-> "lib", targetAlias |-> <<"@", "lib">>],
     [directoryName |-> "blocks", targetAlias |-> <<"@", "components", "blocks">>],
     [directoryName |-> "hooks", targetAlias |-> <<"@", "hooks">>],
     [directoryName |-> "ui", targetAlias |-> <<"@", "components", "ui">>] >>

\* the mappings generated from the aliases of components.json
RECURSIVE AliasMappings(_)
AliasMappings(aliases) ==
  IF aliases = <<>> THEN <<>>
  ELSE LET e == Head(aliases)
           directoryName == IF e.key = "ui" THEN "components" ELSE e.key
           first == <<[directoryName |-> directoryName, targetAlias |-> e.value]>>
           second == IF directoryName # e.key
                       THEN <<[directoryName |-> e.key, targetAlias |-> e.value]>>
                       ELSE <<>>
       IN first \o second \o AliasMappings(Tail(aliases))

directoryMappings(cfg) ==
  IF HasAliases(cfg) /\ AliasMappings(cfg.aliases) # <<>>
    THEN AliasMappings(cfg.aliases)
    ELSE defaultMappings

\* (?:@\/)?registry\/[^/]+\/<directoryName>\/ at the start of the literal
RegistryPrefixLen(path, directoryName) ==
  LET off == IF path # <<>> /\ path[1] = "@" THEN 1 ELSE 0
  IN IF /\ Len(path) >= off + 4
        /\ path[off + 1] = "registry"
        /\ path[off + 2] # ""
        /\ path[off + 3] = directoryName
       THEN off + 3
       ELSE 0

\* the five patterns of one mapping applied to one statement
ApplyMapping(tok, mapping) ==
  LET n == IF tok.kind = "stmt"
             THEN RegistryPrefixLen(tok.path, mapping.directoryName)
             ELSE 0
  IN IF n = 0 THEN tok
     ELSE [tok EXCEPT !.open = "sq",
                      !.path = mapping.targetAlias
                                 \o SubSeq(tok.path, n + 1, Len(tok.path))]

RECURSIVE ApplyMappings(_, _)
ApplyMappings(tok, mappings) ==
  IF mappings = <<>> THEN tok
  ELSE ApplyMappings(ApplyMapping(tok, Head(mappings)), Tail(mappings))

\* quote normalisation of from / import / import( / @import statements that
\* reference an "@/..." path; require( is not normalised
NormalizeQuotes(tok) ==
  IF /\ tok.kind = "stmt"
     /\ tok.kw \in {"from", "import", "import(", "@import"}
     /\ Len(tok.path) >= 2
     /\ tok.path[1] = "@"
     /\ ~(Len(tok.path) = 2 /\ tok.path[2] = "")
    THEN [tok EXCEPT !.open = "dq", !.close = "dq"]
    ELSE tok

\* RegistryProcessor.replaceRegistryPaths
replaceRegistryPaths(content, cfg) ==
  IF content = <<>> THEN content
  ELSE [i \in 1..Len(content) |->
          NormalizeQuotes(ApplyMappings(content[i], directoryMappings(cfg)))]

-----------------------------------------------------------------------------
(* The file system below baseDir.  <<>> is baseDir itself. *)

Absent == [kind |-> "absent"]
Dir == [kind |-> "dir"]
File(c, r) == [kind |-> "file", content |-> c, readable |-> r]

existsSync(f, p) == f[p].kind # "absent"

\* readFileSync returns the content; it throws on a directory (EISDIR) and
\* on a file without read permission (EACCES)
CanRead(f, p) == f[p].kind = "file" /\ f[p].readable

\* writeFileSync throws on a directory (EISDIR) and below a missing
\* directory (ENOENT)
CanWrite(f, p) == f[p].kind # "dir" /\ f[Front(p)].kind = "dir"

writeFileSync(f, p, c) ==
  [f EXCEPT ![p] = File(c, IF f[p].kind = "file" THEN f[p].readable ELSE TRUE)]

Ancestors(p) == {SubSeq(p, 1, k) : k \in 0..Len(p)}

\* mkdirSync(dir, {recursive: true}) throws when a component is a file
CanMkdir(f, d) == \A a \in Ancestors(d) : f[a].kind # "file"

mkdirSync(f, d) ==
  [p \in DOMAIN f |->
     IF p \in Ancestors(d) /\ f[p].kind = "absent" THEN Dir ELSE f[p]]

-----------------------------------------------------------------------------
(* collect, conflict check and write phase of RegistryProcessor *)

NoContentNullOnly(file) == ~file.hasContent

\* if (!file.content): null, undefined and the empty string are skipped
NoContent(file) == ~file.hasContent \/ file.content = <<>>

PendingOf(file, cfg, opts, f) ==
  LET targetPath == resolveTargetPath(file.path, cfg, opts)
      processedContent == replaceRegistryPaths(file.content, cfg)
      exists == existsSync(f, targetPath)
  IN [originalPath |-> file.path,
      targetPath |-> targetPath,
      content |-> file.content,
      processedContent |-> processedContent,
      exists |-> exists,
      identical |-> /\ exists
                    /\ CanRead(f, targetPath)
                    /\ compareFileContents(f[targetPath].content, processedContent)]

RECURSIVE collectPendingFiles(_, _, _, _)
collectPendingFiles(files, cfg, opts, f) ==
  IF files = <<>> THEN <<>>
  ELSE IF NoContent(Head(files))
    THEN collectPendingFiles(Tail(files), cfg, opts, f)
    ELSE <<PendingOf(Head(files), cfg, opts, f)>>
           \o collectPendingFiles(Tail(files), cfg, opts, f)

\* a conflict is recorded for a pending file that exists, is not identical
\* and whose existing content can be read again
RECURSIVE checkFileConflicts(_, _)
checkFileConflicts(pending, f) ==
  IF pending = <<>> THEN <<>>
  ELSE LET pf == Head(pending)
           rest == checkFileConflicts(Tail(pending), f)
       IN IF pf.exists /\ ~pf.identical /\ CanRead(f, pf.targetPath)
            THEN <<[file |-> pf, existingContent |-> f[pf.targetPath].content]>> \o rest
            ELSE rest

ConflictsAlwaysChecked(pending, f, opts) == checkFileConflicts(pending, f)

\* if (!finalOptions.skipConflicts) conflicts = checkFileConflicts(...)
ConflictsToAsk(pending, f, opts) ==
  IF ~opts.skipConflicts THEN checkFileConflicts(pending, f) ELSE <<>>

\* answer.toLowerCase()
toLowerCase(ans) ==
  CASE ans = "Y" -> "y"
    [] ans = "YES" -> "yes"
    [] ans = "Yes" -> "yes"
    [] OTHER -> ans

shouldProceedUnlessNo(ans) == toLowerCase(ans) # "n"

\* the value handleFileConflicts resolves to for an answer
shouldProceed(ans) ==
  toLowerCase(ans) = "y" \/ toLowerCase(ans) = "yes"

ContentWrittenRaw(pf) == pf.content

\* the second argument of writeFileSync in writePendingFile
ContentWritten(pf) == pf.processedContent

AddProcessedUrlOnly(urls, pf) == {pf.originalPath}

\* this.processedUrls.add(pendingFile.originalPath)
AddProcessedUrl(urls, pf) == urls \cup {pf.originalPath}

\* RegistryProcessor.writePendingFile applied to the accumulated effect w of
\* the write phase so far
writePendingFile(w, pf) ==
  LET dir == Front(pf.targetPath)
      urls == AddProcessedUrl(w.urls, pf)
      needDir == ~existsSync(w.fs, dir)
  IN IF needDir /\ ~CanMkdir(w.fs, dir)
       THEN [w EXCEPT !.urls = urls, !.rejected = TRUE]
     ELSE LET f1 == IF needDir THEN mkdirSync(w.fs, dir) ELSE w.fs
              made == IF needDir
                        THEN w.mkdirs \cup {a \in Ancestors(dir) : w.fs[a].kind = "absent"}
                        ELSE w.mkdirs
          IN IF ~CanWrite(f1, pf.targetPath)
               THEN [w EXCEPT !.urls = urls, !.fs = f1, !.mkdirs = made,
                              !.rejected = TRUE]
               ELSE [fs |-> writeFileSync(f1, pf.targetPath, ContentWritten(pf)),
                     urls |-> urls,
                     writes |-> Append(w.writes, pf.targetPath),
                     mkdirs |-> made,
                     rejected |-> w.rejected,
                     processed |-> Append(w.processed,
                        [originalPath |-> pf.originalPath,
                         processedPath |-> pf.targetPath,
                         content |-> pf.content,
                         processedContent |-> pf.processedContent])]

\* a write phase that stops at the first rejected write
RECURSIVE WritePhaseFailFast(_, _), WritePhase(_, _)

WritePhaseFailFast(w, pending) ==
  IF pending = <<>> \/ w.rejected THEN w
  ELSE WritePhaseFailFast(writePendingFile(w, Head(pending)), Tail(pending))

\* pendingFiles.map(pendingFile => this.writePendingFile(pendingFile)): every
\* call runs to its end before the next one starts, and a call that throws
\* only rejects its own promise
WritePhase(w, pending) ==
  IF pending = <<>> THEN w
  ELSE WritePhase(writePendingFile(w, Head(pending)), Tail(pending))

-----------------------------------------------------------------------------
(* Inputs of the processor model *)

VPaths ==
  { <<"registry", "nextjs", "lib", "utils.ts">>,
    <<"registry", "universal", "lib", "utils.ts">> }

\* "x"
ContentX == <<Txt("x")>>
\* " x "
ContentXPadded == <<Ws, Txt("x"), Ws>>
\* from 'registry/nextjs/lib/tokens'
ContentImport == <<Stmt("from", "sq", <<"registry", "nextjs", "lib", "tokens">>, "sq")>>

\* files with content on both paths (two contents on the first), a file with
\* content: null and a file with content: ""
RegistryFiles ==
  [path : {<<"registry", "nextjs", "lib", "utils.ts">>}, hasContent : {TRUE},
   content : {ContentXPadded, ContentImport}]
  \cup { [path |-> <<"registry", "universal", "lib", "utils.ts">>,
          hasContent |-> TRUE, content |-> ContentImport],
         [path |-> <<"registry", "nextjs", "lib", "utils.ts">>,
          hasContent |-> FALSE, content |-> <<>>],
         [path |-> <<"registry", "universal", "lib", "utils.ts">>,
          hasContent |-> TRUE, content |-> <<>>] }

NpmLists ==
  { [dependencies |-> <<>>, devDependencies |-> <<>>],
    [dependencies |-> <<"clsx">>, devDependencies |-> <<"vitest">>] }

Items ==
  { [name |-> "item", files |-> fl,
     dependencies |-> n.dependencies, devDependencies |-> n.devDependencies] :
       fl \in SeqsUpTo(RegistryFiles, MaxFiles), n \in NpmLists }

\* the add command constructs the processor with preserveSubdirectories: true
OptionSets ==
  [skipConflicts : BOOLEAN, installDependencies : BOOLEAN,
   preserveSubdirectories : {TRUE}]

Configs == {NoConfig, AliasConfig}

Answers == {"y", "Yes", "n", ""}

Targets(cfg, opts) == {resolveTargetPath(p, cfg, opts) : p \in VPaths}

FsPaths ==
  UNION {Ancestors(t) : t \in UNION {Targets(c, o) : c \in Configs, o \in OptionSets}}

\* what may be found at a target path before the first call
DiskEntries == {Absent, Dir, File(ContentX, TRUE), File(ContentX, FALSE)}

\* a directory exists when something exists below it
InitialFs(cfg, opts) ==
  { [p \in FsPaths |->
       IF p \in Targets(cfg, opts) THEN e[p]
       ELSE IF p = <<>> \/ \E t \in Targets(cfg, opts) :
                              e[t] # Absent /\ p \in Ancestors(t)
         THEN Dir
         ELSE Absent] : e \in [Targets(cfg, opts) -> DiskEntries] }

NoResult ==
  [status |-> "none", error |-> "", processedFiles |-> <<>>,
   processedUrls |-> {}, npmDependencies |-> <<>>, devDependencies |-> <<>>]

Threw(msg) == [NoResult EXCEPT !.status = "threw", !.error = msg]

-----------------------------------------------------------------------------
(* RegistryProcessor: state after construction and initialize() *)

TreeIdle ==
  /\ registry = <<>>
  /\ tcalls = <<>>
  /\ fetches = <<>>
  /\ outcome = [status |-> "none"]
  /\ order = <<>>
  /\ flat = <<>>

\* the stylesheet is not touched and no add command runs
CssIdle ==
  /\ globalsCss = [kind |-> "absent"]
  /\ cssVars = [present |-> FALSE, entries |-> <<>>]
  /\ cssBefore = globalsCss
  /\ cssResult = "none"
  /\ cssCalls = 0

ValidatorIdle ==
  /\ vschema = [properties |-> <<>>, required |-> <<>>]
  /\ vitem = <<>>
  /\ vresult = [status |-> "none", isValid |-> FALSE, errors |-> <<>>,
                warnings |-> <<>>]

ResolverIdle ==
  /\ rpath = <<>>
  /\ rtarget = [status |-> "none", path |-> <<>>]
  /\ rcontent = <<>>
  /\ rrewritten = [status |-> "none", content |-> <<>>]

AddIdle ==
  /\ astore = <<>>
  /\ apc = "idle"
  /\ adep = 0
  /\ alog = <<>>
  /\ aexit = [code |-> -1, via |-> "none"]
  /\ aform = "url"

Init ==
  /\ options \in OptionSets
  /\ componentsConfig \in Configs
  /\ fs \in InitialFs(componentsConfig, options)
  /\ processedUrls = {}
  /\ item \in Items
  /\ phase = "idle"
  /\ pendingFiles = <<>>
  /\ prompted = <<>>
  /\ result = NoResult
  /\ calls = 0
  /\ prompts = 0
  /\ answer = "none"
  /\ installs = 0
  /\ writes = <<>>
  /\ mkdirs = {}
  /\ fsBefore = fs
  /\ urlsBefore = {}
  /\ prevDone = FALSE
  /\ TreeIdle
  /\ CssIdle
  /\ AddIdle
  /\ ValidatorIdle
  /\ ResolverIdle

InstallInvokedAlways(it) == TRUE

\* installDependencies: no shell invocation when both lists are empty
InstallInvoked(it) == it.dependencies # <<>> \/ it.devDependencies # <<>>

\* processRegistryItem from the write phase to its end; installOk is the exit
\* status of the package manager
WriteAndInstall(pending, installOk) ==
  LET w == WritePhase([fs |-> fs, urls |-> processedUrls, writes |-> <<>>,
                       mkdirs |-> {}, rejected |-> FALSE, processed |-> <<>>],
                      pending)
      install == ~w.rejected /\ options.installDependencies /\ InstallInvoked(item)
  IN /\ fs' = w.fs
     /\ processedUrls' = w.urls
     /\ writes' = w.writes
     /\ mkdirs' = w.mkdirs
     /\ installs' = IF install THEN 1 ELSE 0
     /\ IF w.rejected
          THEN phase' = "failed" /\ result' = Threw("io")
        ELSE IF install /\ ~installOk
          THEN phase' = "failed" /\ result' = Threw("install")
        ELSE /\ phase' = "done"
             /\ result' = [status |-> "returned", error |-> "",
                           processedFiles |-> w.processed,
                           processedUrls |-> w.urls,
                           npmDependencies |-> item.dependencies,
                           devDependencies |-> item.devDependencies]

\* processRegistryItem(item) up to the confirmation question, or to its end
\* when no question is asked
ProcessRegistryItem ==
  /\ phase # "prompt"
  /\ calls < MaxCalls
  /\ LET pend == IF Len(item.files) > 0
                   THEN collectPendingFiles(item.files, componentsConfig, options, fs)
                   ELSE <<>>
         conflicts == ConflictsToAsk(pend, fs, options)
     IN /\ calls' = calls + 1
        /\ fsBefore' = fs
        /\ urlsBefore' = processedUrls
        /\ prevDone' = (phase = "done")
        /\ pendingFiles' = pend
        /\ answer' = "none"
        /\ IF Len(conflicts) > 0
             THEN /\ phase' = "prompt"
                  /\ prompted' = [i \in 1..Len(conflicts) |-> conflicts[i].file.targetPath]
                  /\ prompts' = 1
                  /\ result' = NoResult
                  /\ installs' = 0
                  /\ writes' = <<>>
                  /\ mkdirs' = {}
                  /\ UNCHANGED <<fs, processedUrls>>
             ELSE /\ prompted' = <<>>
                  /\ prompts' = 0
                  /\ \E installOk \in BOOLEAN : WriteAndInstall(pend, installOk)
  /\ UNCHANGED <<options, componentsConfig, item, tvars, ovars>>

\* the user's answer to the question of handleFileConflicts arrives
AnswerQuestion ==
  /\ phase = "prompt"
  /\ \E ans \in Answers :
       /\ answer' = ans
       /\ IF shouldProceed(ans)
         THEN \E installOk \in BOOLEAN : WriteAndInstall(pendingFiles, installOk)
         ELSE /\ phase' = "cancelled"
              /\ result' = Threw("User cancelled file overwrite")
              /\ UNCHANGED <<fs, processedUrls, writes, mkdirs, installs>>
  /\ UNCHANGED <<options, componentsConfig, item, pendingFiles, prompted, calls,
                 prompts, fsBefore, urlsBefore, prevDone, tvars, ovars>>

getProcessedUrls == processedUrls

\* clearProcessedUrls(), called between two processRegistryItem calls
ClearProcessedUrls ==
  /\ phase # "prompt"
  /\ processedUrls # {}
  /\ processedUrls' = {}
  /\ phase' = "idle"
  /\ pendingFiles' = <<>>
  /\ prompted' = <<>>
  /\ result' = NoResult
  /\ prompts' = 0
  /\ answer' = "none"
  /\ installs' = 0
  /\ writes' = <<>>
  /\ mkdirs' = {}
  /\ fsBefore' = fs
  /\ urlsBefore' = {}
  /\ UNCHANGED <<options, componentsConfig, fs, item, calls, prevDone, tvars,
                 ovars>>

Next == ProcessRegistryItem \/ AnswerQuestion \/ ClearProcessedUrls

Spec == Init /\ [][Next]_vars

-----------------------------------------------------------------------------
(* Dependency graph builder (registry-process.ts) *)

Names == {"a", "b", "c"}

\* the name handed to the outermost buildDependencyTree call
RootName == "a"

\* registryDependencies lists: each name at most once
DepLists ==
  {d \in SeqsUpTo(Names, MaxDeps) : \A i, j \in 1..Len(d) : d[i] = d[j] => i = j}

\* at most one item of the registry answers with a non-success status
Registries ==
  { [n \in Names |-> [ok |-> n # bad, name |-> n, registryDependencies |-> deps[n]]] :
      deps \in [Names -> DepLists], bad \in Names \cup {"none"} }

\* extractRegistryDependencies
extractRegistryDependencies(it) == it.registryDependencies

ChildVisitedShared(visited, deps, k) ==
  visited \cup {deps[j] : j \in (1..Len(deps)) \ {k}}

\* new Set(visited): the set handed to the k-th child call
ChildVisited(visited, deps, k) == visited

\* buildDependencyTree up to its first await: the cycle check, the addition
\* to visited and the fetch request
Invoke(name, visited, depth) ==
  IF name \in visited
    THEN [name |-> name, visited |-> visited, depth |-> depth,
          status |-> "rejected",
          error |-> [kind |-> "circular", name |-> name]]
    ELSE [name |-> name, visited |-> visited \cup {name}, depth |-> depth,
          status |-> "fetching"]

ChildIds(tc, id) == {c \in DOMAIN tc : Len(c) = Len(id) + 1 /\ IsPrefix(id, c)}

\* the DependencyNode a call resolves to once all its children have resolved
NodeOf(tc, id) ==
  LET deps == extractRegistryDependencies(registry[tc[id].name])
  IN [name |-> tc[id].name,
      item |-> registry[tc[id].name],
      registryDependencies |-> [k \in 1..Len(deps) |-> tc[Append(id, k)].node],
      depth |-> tc[id].depth]

\* Promise.all of the call id settles: it rejects with the first rejection of
\* a child, it resolves when every child has resolved; the settlement is
\* passed on to the awaiting parent call
RECURSIVE Settle(_, _)
Settle(tc, id) ==
  IF tc[id].status # "building" THEN tc
  ELSE LET kids == ChildIds(tc, id)
           rejected == {c \in kids : tc[c].status = "rejected"}
           first == CHOOSE c \in rejected :
                      \A d \in rejected : c[Len(c)] <= d[Len(d)]
           tc1 == IF rejected # {}
                    THEN [tc EXCEPT ![id] =
                            [name |-> tc[id].name, visited |-> tc[id].visited,
                             depth |-> tc[id].depth, status |-> "rejected",
                             error |-> tc[first].error]]
                  ELSE IF \A c \in kids : tc[c].status = "resolved"
                    THEN [tc EXCEPT ![id] =
                            [name |-> tc[id].name, visited |-> tc[id].visited,
                             depth |-> tc[id].depth, status |-> "resolved",
                             node |-> NodeOf(tc, id)]]
                  ELSE tc
       IN IF tc1 = tc \/ id = <<>> THEN tc1 ELSE Settle(tc1, Front(id))

OutcomeOf(tc) ==
  CASE tc[<<>>].status = "resolved" -> [status |-> "resolved", tree |-> tc[<<>>].node]
    [] tc[<<>>].status = "rejected" -> [status |-> "rejected", error |-> tc[<<>>].error]
    [] OTHER -> [status |-> "pending"]

\* buildDependencyTree(RootName): the outermost call, visited = new Set()
BuildDependencyTree ==
  /\ outcome.status = "none"
  /\ tcalls' = (<<>> :> Invoke(RootName, {}, 0))
  /\ fetches' = <<RootName>>
  /\ outcome' = [status |-> "pending"]
  /\ UNCHANGED <<registry, order, flat, pvars, ovars>>

\* the response of fetchRegistryItem for the call id arrives: the call
\* throws on a non-success status, otherwise it starts one child call per
\* registry dependency and awaits them all
FetchReturns(id) ==
  /\ tcalls[id].status = "fetching"
  /\ LET c == tcalls[id]
         rootItem == registry[c.name]
         registryDeps == extractRegistryDependencies(rootItem)
         kid(k) == Invoke(registryDeps[k],
                          ChildVisited(c.visited, registryDeps, k), c.depth + 1)
         issued == SelectSeq([k \in 1..Len(registryDeps) |->
                                IF kid(k).status = "fetching"
                                  THEN registryDeps[k] ELSE ""],
                             LAMBDA n : n # "")
         failed == [tcalls EXCEPT ![id] =
                      [name |-> c.name, visited |-> c.visited, depth |-> c.depth,
                       status |-> "rejected",
                       error |-> [kind |-> "fetch", name |-> c.name]]]
         spawned == [x \in DOMAIN tcalls \cup {Append(id, k) : k \in 1..Len(registryDeps)} |->
                       IF x = id THEN [c EXCEPT !.status = "building"]
                       ELSE IF x \in DOMAIN tcalls THEN tcalls[x]
                       ELSE kid(x[Len(x)])]
         tc == IF rootItem.ok
                 THEN Settle(spawned, id)
                 ELSE IF id = <<>> THEN failed ELSE Settle(failed, Front(id))
     IN /\ tcalls' = tc
        /\ fetches' = IF rootItem.ok THEN fetches \o issued ELSE fetches
        /\ outcome' = IF outcome.status = "pending" THEN OutcomeOf(tc) ELSE outcome
  /\ UNCHANGED <<registry, order, flat, pvars, ovars>>

RECURSIVE visitPreOrder(_, _), visit(_, _), VisitAll(_, _)

visitPreOrder(node, st) ==
  IF node.name \in st.visited THEN st
  ELSE VisitAll(node.registryDependencies,
                [visited |-> st.visited \cup {node.name},
                 result |-> Append(st.result, node.item)])

\* visit of calculateInstallationOrder; st holds its result and visited
visit(node, st) ==
  IF node.name \in st.visited THEN st
  ELSE LET st1 == VisitAll(node.registryDependencies, st)
       IN [visited |-> st1.visited \cup {node.name},
           result |-> Append(st1.result, node.item)]

\* node.registryDependencies.forEach(visit)
VisitAll(nodes, st) ==
  IF nodes = <<>> THEN st
  ELSE VisitAll(Tail(nodes), visit(Head(nodes), st))

calculateInstallationOrder(tree) ==
  visit(tree, [visited |-> {}, result |-> <<>>]).result

\* getInstallationOrder: calculateInstallationOrder on the built tree
CalculateInstallationOrder ==
  /\ outcome.status = "resolved"
  /\ order = <<>>
  /\ order' = LET r == calculateInstallationOrder(outcome.tree)
              IN [i \in 1..Len(r) |-> r[i].name]
  /\ UNCHANGED <<registry, tcalls, fetches, outcome, flat, pvars, ovars>>

RECURSIVE traverse(_, _), TraverseAll(_, _)

traversePostOrder(node, st) == visit(node, st)

\* traverse of flattenDependencyTree; st holds its items and visited
traverse(node, st) ==
  IF node.name \in st.visited THEN st
  ELSE TraverseAll(node.registryDependencies,
                   [visited |-> st.visited \cup {node.name},
                    result |-> Append(st.result, node.item)])

\* node.registryDependencies.forEach(traverse)
TraverseAll(nodes, st) ==
  IF nodes = <<>> THEN st
  ELSE TraverseAll(Tail(nodes), traverse(Head(nodes), st))

flattenDependencyTree(tree) ==
  traverse(tree, [visited |-> {}, result |-> <<>>]).result

\* flatDependencies of createEnhancedSchemaProcessor.buildDependencyTree:
\* flattenDependencyTree on the built tree
FlattenDependencyTree ==
  /\ outcome.status = "resolved"
  /\ flat = <<>>
  /\ flat' = LET r == flattenDependencyTree(outcome.tree)
             IN [i \in 1..Len(r) |-> r[i].name]
  /\ UNCHANGED <<registry, tcalls, fetches, outcome, order, pvars, ovars>>

\* the processor is not used while the tree is built
ProcessorIdle ==
  /\ options = [skipConflicts |-> FALSE, installDependencies |-> TRUE,
                preserveSubdirectories |-> TRUE]
  /\ componentsConfig = NoConfig
  /\ fs = [p \in FsPaths |-> IF p = <<>> THEN Dir ELSE Absent]
  /\ processedUrls = {}
  /\ item = [name |-> "item", files |-> <<>>, dependencies |-> <<>>,
             devDependencies |-> <<>>]
  /\ phase = "idle"
  /\ pendingFiles = <<>>
  /\ prompted = <<>>
  /\ result = NoResult
  /\ calls = 0
  /\ prompts = 0
  /\ answer = "none"
  /\ installs = 0
  /\ writes = <<>>
  /\ mkdirs = {}
  /\ fsBefore = fs
  /\ urlsBefore = {}
  /\ prevDone = FALSE

InitTree ==
  /\ registry \in Registries
  /\ tcalls = <<>>
  /\ fetches = <<>>
  /\ outcome = [status |-> "none"]
  /\ order = <<>>
  /\ flat = <<>>
  /\ ProcessorIdle
  /\ CssIdle
  /\ AddIdle
  /\ ValidatorIdle
  /\ ResolverIdle

NextTree ==
  \/ BuildDependencyTree
  \/ \E id \in DOMAIN tcalls : FetchReturns(id)
  \/ CalculateInstallationOrder
  \/ FlattenDependencyTree

SpecTree == InitTree /\ [][NextTree]_vars

-----------------------------------------------------------------------------
(* CSS variables (processCSSVars) *)

\* the line "/* CSS Variables from Registry */" preceded by a line break
CssHeader == [kind |-> "header"]

\* the line "  --key: value;"
CssLine(key, value) == [kind |-> "decl", key |-> key, value |-> value]

Group(key, group) == [key |-> key, isObject |-> TRUE, group |-> group, value |-> ""]
Scalar(key, value) == [key |-> key, isObject |-> FALSE, group |-> <<>>, value |-> value]
Var(key, value) == [key |-> key, value |-> value]

\* the lines generateCSSVars emits for one entry of Object.entries(cssVars)
EntryLines(e) ==
  IF e.isObject
    THEN [i \in 1..Len(e.group) |-> CssLine(e.group[i].key, e.group[i].value)]
    ELSE <<CssLine(e.key, e.value)>>

RECURSIVE AllEntryLines(_)
AllEntryLines(entries) ==
  IF entries = <<>> THEN <<>>
  ELSE EntryLines(Head(entries)) \o AllEntryLines(Tail(entries))

\* RegistryProcessor.generateCSSVars
generateCSSVars(cv) == <<CssHeader>> \o AllEntryLines(cv.entries)

\* !cssVars || Object.keys(cssVars).length === 0
CssNoOp(cv) == ~cv.present \/ cv.entries = <<>>

\* globals.css: "nodir" when src/app is missing, "blocked" when src/app
\* cannot be created because a file is in the way
NoAppDir == [kind |-> "nodir"]
AppDirBlocked == [kind |-> "blocked"]

\* mkdirSync of src/app or writeFileSync with flag 'a' throws
CssThrows(g) == g.kind \in {"blocked", "dir"}

CssReplaced(g, css) == File(css, TRUE)

\* writeFileSync(cssPath, cssContent, {flag: 'a'}) on an existing file
CssAppended(g, css) == File(g.content \o css, g.readable)

\* RegistryProcessor.processCSSVars: the stylesheet after the call
processCSSVars(g, cv) ==
  IF CssNoOp(cv) \/ CssThrows(g) THEN g
  ELSE IF g.kind = "file" THEN CssAppended(g, generateCSSVars(cv))
  ELSE File(generateCSSVars(cv), TRUE)

\* entries of a cssVars object: an empty group, groups with one and with two
\* variables, and a value that is not an object
CssEntries ==
  { Group("theme", <<>>),
    Group("light", <<Var("foo", "red")>>),
    Group("dark", <<Var("foo", "black"), Var("bar", "blue")>>),
    Scalar("radius", "4px") }

\* cssVars absent, {} or an object with up to MaxCssEntries entries
CssInputs ==
  {[present |-> FALSE, entries |-> <<>>]}
    \cup {[present |-> TRUE, entries |-> e] : e \in SeqsUpTo(CssEntries, MaxCssEntries)}

\* what may be found at src/app/globals.css before the first call
CssDiskEntries ==
  {NoAppDir, AppDirBlocked, Absent, Dir, File(<<>>, TRUE), File(ContentX, TRUE)}

InitCss ==
  /\ globalsCss \in CssDiskEntries
  /\ cssVars = [present |-> FALSE, entries |-> <<>>]
  /\ cssBefore = globalsCss
  /\ cssResult = "none"
  /\ cssCalls = 0
  /\ ProcessorIdle
  /\ TreeIdle
  /\ AddIdle
  /\ ValidatorIdle
  /\ ResolverIdle

\* one call of processCSSVars(cv)
ProcessCSSVars ==
  /\ cssCalls < MaxCssCalls
  /\ \E cv \in CssInputs :
       /\ cssVars' = cv
       /\ cssBefore' = globalsCss
       /\ globalsCss' = processCSSVars(globalsCss, cv)
       /\ cssResult' = IF ~CssNoOp(cv) /\ CssThrows(globalsCss)
                         THEN "threw" ELSE "returned"
  /\ cssCalls' = cssCalls + 1
  /\ UNCHANGED <<pvars, tvars, avars, vvars, rvars>>

NextCss == ProcessCSSVars

SpecCss == InitCss /\ [][NextCss]_vars

-----------------------------------------------------------------------------
(* The add command (addCommand, processDependencies) *)

\* registryDependencies of the root item: other components, each once
ADepLists == {d \in DepLists : RootName \notin Range(d)}

AddFile(n) ==
  CASE n = "a" -> [path |-> <<"registry", "nextjs", "lib", "utils.ts">>,
                   hasContent |-> TRUE, content |-> ContentImport]
    [] n = "b" -> [path |-> <<"registry", "universal", "lib", "utils.ts">>,
                   hasContent |-> TRUE, content |-> ContentImport]
    [] OTHER -> [path |-> <<"registry", "universal", "lib", "utils.ts">>,
                 hasContent |-> TRUE, content |-> ContentXPadded]

CssVarSets ==
  { [present |-> FALSE, entries |-> <<>>],
    [present |-> TRUE, entries |-> <<Group("theme", <<Var("foo", "red")>>)>>] }

AddItem(n, deps, cv) ==
  [name |-> n, registryDependencies |-> deps, files |-> <<AddFile(n)>>,
   dependencies |-> <<"clsx">>, devDependencies |-> <<>>, cssVars |-> cv]

\* what a component reference answers: "ok" (an item that passes validation),
\* "invalid" (an item that fails validation), "unfetchable" (the request or
\* the JSON parse throws); at most one reference does not answer "ok"
AddStores ==
  { [n \in Names |->
       [status |-> IF n = bad THEN how ELSE "ok",
        item |-> AddItem(n, IF n = "a" THEN da ELSE IF n = "b" THEN db ELSE <<>>,
                         IF n = "a" THEN cv ELSE [present |-> FALSE, entries |-> <<>>])]] :
      da \in ADepLists, db \in {<<>>, <<"c">>}, cv \in CssVarSets,
      bad \in Names \cup {"none"}, how \in {"invalid", "unfetchable"} }

\* new RegistryProcessor({preserveSubdirectories: true, installDependencies:
\* true, skipConflicts: Boolean(options.force || options.skipConflicts)})
AddOptionSets ==
  [skipConflicts : BOOLEAN, installDependencies : {TRUE},
   preserveSubdirectories : {TRUE}]

Ev(kind, name) == [kind |-> kind, name |-> name]

WriteEvents(name, ws) == [i \in 1..Len(ws) |-> Ev("write", name)]

Exited(code, via) == [code |-> code, via |-> via]

\* processRegistryItem(it) from the write phase to its end
ProcessEffect(it, pending, installOk) ==
  LET w == WritePhase([fs |-> fs, urls |-> processedUrls, writes |-> <<>>,
                       mkdirs |-> {}, rejected |-> FALSE, processed |-> <<>>],
                      pending)
      install == ~w.rejected /\ options.installDependencies /\ InstallInvoked(it)
  IN [fs |-> w.fs, urls |-> w.urls,
      events |-> WriteEvents(it.name, w.writes)
                   \o (IF install THEN <<Ev("install", it.name)>> ELSE <<>>),
      error |-> IF w.rejected THEN "io"
                ELSE IF install /\ ~installOk THEN "install" ELSE ""]

\* component references are written as bare names ('button') or as the URL
\* of the item in full
ReferenceForms == {"name", "url"}

RegistryBase == "https://liftkit.pages.dev/r"

\* `https://liftkit.pages.dev/r/${component}.json`
RegistryUrl(component) == [base |-> RegistryBase, name |-> component]

\* the string that stands for component n in the command line and in
\* registryDependencies
Written(n) == IF aform = "url" THEN RegistryUrl(n) ELSE [base |-> "", name |-> n]

isValidUrl(ref) == ref.base # ""

\* fetchRegistryItem(component): the address requested; no local file has
\* the name of a component
RootLocation(component) ==
  IF isValidUrl(component) THEN component ELSE RegistryUrl(component.name)

\* fetchFn(depUrl): the string of registryDependencies is requested as it is
DependencyLocation(depUrl) == depUrl

\* fetch(location) and response.json(): a string that is not a URL makes
\* fetch throw
Fetched(location) ==
  IF isValidUrl(location) THEN astore[location.name]
  ELSE [status |-> "unfetchable", item |-> astore[location.name].item]

RootEntry == Fetched(RootLocation(Written(RootName)))

DependencyEntry(dep) == Fetched(DependencyLocation(Written(dep)))

RootItem == RootEntry.item

Dependencies == RootItem.registryDependencies

InitAdd ==
  /\ options \in AddOptionSets
  /\ componentsConfig = NoConfig
  /\ fs \in InitialFs(componentsConfig, options)
  /\ processedUrls = {}
  /\ item = [name |-> "item", files |-> <<>>, dependencies |-> <<>>,
             devDependencies |-> <<>>]
  /\ phase = "idle"
  /\ pendingFiles = <<>>
  /\ prompted = <<>>
  /\ result = NoResult
  /\ calls = 0
  /\ prompts = 0
  /\ answer = "none"
  /\ installs = 0
  /\ writes = <<>>
  /\ mkdirs = {}
  /\ fsBefore = fs
  /\ urlsBefore = {}
  /\ prevDone = FALSE
  /\ TreeIdle
  /\ globalsCss \in {NoAppDir, File(ContentX, TRUE)}
  /\ cssVars = [present |-> FALSE, entries |-> <<>>]
  /\ cssBefore = globalsCss
  /\ cssResult = "none"
  /\ cssCalls = 0
  /\ astore \in AddStores
  /\ apc = "start"
  /\ adep = 0
  /\ alog = <<>>
  /\ aexit = [code |-> -1, via |-> "none"]
  /\ aform \in ReferenceForms
  /\ ValidatorIdle
  /\ ResolverIdle

AddFrame == UNCHANGED <<options, componentsConfig, item, phase, prompted, result,
                        calls, prompts, answer, installs, writes, mkdirs,
                        fsBefore, urlsBefore, prevDone, tvars, cssVars,
                        cssBefore, cssResult, cssCalls, astore, aform,
                        vvars, rvars>>

\* handleAddCommandError for an error other than the cancellation
ErrorExit(events) ==
  /\ alog' = alog \o events \o <<Ev("error", "")>>
  /\ aexit' = Exited(1, "handleAddCommandError")
  /\ apc' = "exit"

RootAcceptedAlways(entry) == TRUE

\* validation.isValid of the root item
RootAccepted(entry) == entry.status = "ok"

\* addCommand from its start to the call of processRegistryDependencies
AddCommand ==
  /\ apc = "start"
  /\ \E hasPackageJson, schemaOk \in BOOLEAN :
       IF ~hasPackageJson
         THEN /\ alog' = Append(alog, Ev("noPackageJson", ""))
              /\ aexit' = Exited(1, "noPackageJson")
              /\ apc' = "exit"
       ELSE IF ~schemaOk
         THEN ErrorExit(<<>>)
       ELSE IF RootEntry.status = "unfetchable"
         THEN ErrorExit(<<Ev("fetch", RootName)>>)
       ELSE IF ~RootAccepted(RootEntry)
         THEN /\ alog' = alog \o <<Ev("fetch", RootName), Ev("invalidItem", RootName)>>
              /\ aexit' = Exited(1, "validation")
              /\ apc' = "exit"
       ELSE /\ alog' = Append(alog, Ev("fetch", RootName))
            /\ aexit' = aexit
            /\ apc' = "validated"
  /\ UNCHANGED <<fs, processedUrls, pendingFiles, globalsCss, adep>>
  /\ AddFrame

\* processRegistryDependencies up to the loop of processDependencies
ProcessRegistryDependencies ==
  /\ apc = "validated"
  /\ IF Len(Dependencies) = 0
       THEN /\ apc' = "deps"
            /\ UNCHANGED <<alog, aexit>>
       ELSE \E schemaOk \in BOOLEAN :
              IF schemaOk
                THEN /\ apc' = "deps"
                     /\ UNCHANGED <<alog, aexit>>
                ELSE ErrorExit(<<>>)
  /\ adep' = 1
  /\ UNCHANGED <<fs, processedUrls, pendingFiles, globalsCss>>
  /\ AddFrame

DependencyAcceptedAlways(entry) == TRUE

\* depValidation.isValid
DependencyAccepted(entry) == entry.status = "ok"

\* the dependency's processRegistryItem call from the write phase on; a throw
\* is caught by the loop and logged as 'Failed to fetch dependency'
DependencyWritten(depItem, pending, before) ==
  \E installOk \in BOOLEAN :
    LET e == ProcessEffect(depItem, pending, installOk)
    IN /\ fs' = e.fs
       /\ processedUrls' = e.urls
       /\ alog' = alog \o before \o e.events
                    \o <<Ev(IF e.error # "" THEN "failedDependency" ELSE "returned",
                            depItem.name)>>

\* a loop that goes on to the next dependency while the question is open
QuestionNotAwaited(k) == [pc |-> "deps", dep |-> k + 1]

\* await registryProcessor.processRegistryItem(depItem): the loop stays at
\* dependency k until the question is answered
QuestionAwaited(k) == [pc |-> "depPrompt", dep |-> k]

\* one iteration of the loop of processDependencies, up to the confirmation
\* question or to the end of the iteration
ProcessDependency ==
  /\ apc = "deps"
  /\ adep <= Len(Dependencies)
  /\ LET depUrl == Dependencies[adep]
         entry == DependencyEntry(depUrl)
         depItem == entry.item
         pend == collectPendingFiles(depItem.files, componentsConfig, options, fs)
         conflicts == ConflictsToAsk(pend, fs, options)
     IN IF entry.status = "unfetchable"
          THEN /\ alog' = alog \o <<Ev("fetch", depUrl), Ev("failedDependency", depUrl)>>
               /\ adep' = adep + 1
               /\ UNCHANGED <<fs, processedUrls, pendingFiles, apc>>
        ELSE IF ~DependencyAccepted(entry)
          THEN /\ alog' = alog \o <<Ev("fetch", depUrl), Ev("invalidDependency", depUrl)>>
               /\ adep' = adep + 1
               /\ UNCHANGED <<fs, processedUrls, pendingFiles, apc>>
        ELSE IF Len(conflicts) > 0
          THEN /\ alog' = alog \o <<Ev("fetch", depUrl), Ev("call", depUrl),
                                    Ev("question", depUrl)>>
               /\ apc' = QuestionAwaited(adep).pc
               /\ adep' = QuestionAwaited(adep).dep
               /\ pendingFiles' = pend
               /\ UNCHANGED <<fs, processedUrls>>
        ELSE /\ DependencyWritten(depItem, pend,
                                  <<Ev("fetch", depUrl), Ev("call", depUrl)>>)
             /\ adep' = adep + 1
             /\ UNCHANGED <<pendingFiles, apc>>
  /\ UNCHANGED <<globalsCss, aexit>>
  /\ AddFrame

\* the answer to the question of a dependency's processRegistryItem call
AnswerDependency ==
  /\ apc = "depPrompt"
  /\ LET depUrl == Dependencies[adep]
     IN \E ans \in Answers :
          IF shouldProceed(ans)
            THEN DependencyWritten(DependencyEntry(depUrl).item, pendingFiles, <<>>)
            ELSE /\ alog' = alog \o <<Ev("declined", depUrl),
                                      Ev("failedDependency", depUrl)>>
                 /\ UNCHANGED <<fs, processedUrls>>
  /\ apc' = "deps"
  /\ adep' = adep + 1
  /\ UNCHANGED <<pendingFiles, globalsCss, aexit>>
  /\ AddFrame

\* the root item's processRegistryItem call from the write phase on, then
\* processCSSVars and logSuccessMessages
RootWritten(pending, before) ==
  \E installOk \in BOOLEAN :
    LET e == ProcessEffect(RootItem, pending, installOk)
        cv == RootItem.cssVars
        cssThrows == cv.present /\ ~CssNoOp(cv) /\ CssThrows(globalsCss)
    IN /\ fs' = e.fs
       /\ processedUrls' = e.urls
       /\ IF e.error # ""
            THEN /\ ErrorExit(before \o e.events)
                 /\ UNCHANGED globalsCss
          ELSE IF cssThrows
            THEN /\ ErrorExit(before \o e.events \o <<Ev("returned", RootName)>>)
                 /\ UNCHANGED globalsCss
          ELSE /\ globalsCss' = IF cv.present THEN processCSSVars(globalsCss, cv)
                                ELSE globalsCss
               /\ alog' = alog \o before \o e.events
                            \o <<Ev("returned", RootName), Ev("success", RootName)>>
               /\ aexit' = Exited(0, "return")
               /\ apc' = "exit"

\* addCommand after processRegistryDependencies has returned, up to the
\* confirmation question or to the end of the command
ProcessRoot ==
  /\ apc = "deps"
  /\ adep > Len(Dependencies)
  /\ LET pend == collectPendingFiles(RootItem.files, componentsConfig, options, fs)
         conflicts == ConflictsToAsk(pend, fs, options)
     IN IF Len(conflicts) > 0
          THEN /\ alog' = alog \o <<Ev("call", RootName), Ev("question", RootName)>>
               /\ apc' = "rootPrompt"
               /\ pendingFiles' = pend
               /\ UNCHANGED <<fs, processedUrls, globalsCss, aexit>>
          ELSE /\ RootWritten(pend, <<Ev("call", RootName)>>)
               /\ UNCHANGED pendingFiles
  /\ UNCHANGED adep
  /\ AddFrame

\* the answer to the question of the root item's processRegistryItem call;
\* handleAddCommandError exits with 0 on 'User cancelled file overwrite'
AnswerRoot ==
  /\ apc = "rootPrompt"
  /\ \E ans \in Answers :
       IF shouldProceed(ans)
         THEN RootWritten(pendingFiles, <<>>)
         ELSE /\ alog' = alog \o <<Ev("declined", RootName), Ev("cancelled", RootName)>>
              /\ aexit' = Exited(0, "handleAddCommandError")
              /\ apc' = "exit"
              /\ UNCHANGED <<fs, processedUrls, globalsCss>>
  /\ UNCHANGED <<pendingFiles, adep>>
  /\ AddFrame

NextAdd ==
  \/ AddCommand
  \/ ProcessRegistryDependencies
  \/ ProcessDependency
  \/ AnswerDependency
  \/ ProcessRoot
  \/ AnswerRoot

SpecAdd == InitAdd /\ [][NextAdd]_vars

-----------------------------------------------------------------------------
(* Schema validator (registry-utils.ts) *)

\* JavaScript values as far as the validator tells them apart
Str(s) == [t |-> "string", s |-> s, elems |-> <<>>]
Num == [t |-> "number", s |-> "", elems |-> <<>>]
Obj == [t |-> "object", s |-> "", elems |-> <<>>]
Arr(elems) == [t |-> "array", s |-> "", elems |-> elems]

isString(val) == val.t = "string"
isArray(val) == val.t = "array"
isObject(val) == val.t = "object"

Prop(name, type, itemsType, enum) ==
  [name |-> name, type |-> type, itemsType |-> itemsType, enum |-> enum]

\* Object.keys(schema.properties)
extractPropertyNames(schema) ==
  [i \in 1..Len(schema.properties) |-> schema.properties[i].name]

extractRequired(schema) == schema.required

\* field in item
HasField(it, field) == \E i \in 1..Len(it) : it[i].key = field

\* item[field]
FieldValue(it, field) == it[CHOOSE i \in 1..Len(it) : it[i].key = field].value

\* schema.properties[fieldName]
FieldSchema(schema, fieldName) ==
  schema.properties[CHOOSE i \in 1..Len(schema.properties) :
                      schema.properties[i].name = fieldName]

Declared(schema, fieldName) == fieldName \in Range(extractPropertyNames(schema))

\* messages of the validator
Message(kind, field, what, index) ==
  [kind |-> kind, field |-> field, what |-> what, index |-> index]
Missing(field) == Message("Missing required field", field, "", 0)
Unknown(field) == Message("Unknown field", field, "", 0)
MustBe(what, field) == Message("must be", field, what, 0)
ItemMustBeString(field, index) == Message("Array item must be", field, "a string", index)
MustBeOneOf(field) == Message("must be one of", field, "", 0)

\* fieldName.startsWith('$'), for the field names of the model
StartsWithDollar(fieldName) == fieldName \in {"$schema", "$id", "$ref", "$comment"}

\* the fields createFieldValidator never validates
MetadataField(fieldName) ==
  \/ StartsWithDollar(fieldName)
  \/ fieldName \in {"$schema", "$id", "$ref", "metadata", "meta"}

\* the messages for the elements of an array that are not strings
ItemErrors(fieldName, elems) ==
  LET bad == SelectSeq([i \in 1..Len(elems) |-> [index |-> i - 1, val |-> elems[i]]],
                       LAMBDA e : ~isString(e.val))
  IN [i \in 1..Len(bad) |-> ItemMustBeString(fieldName, bad[i].index)]

EnumErrorNever(fieldSchema, fieldName, value) == <<>>

\* fieldSchema.enum && !fieldSchema.enum.includes(value)
EnumError(fieldSchema, fieldName, value) ==
  IF fieldSchema.enum # <<>>
     /\ ~(isString(value) /\ value.s \in Range(fieldSchema.enum))
    THEN <<MustBeOneOf(fieldName)>>
    ELSE <<>>

createFieldValidator(schema, fieldName, value) ==
  IF MetadataField(fieldName) THEN <<>>
  ELSE IF ~Declared(schema, fieldName) THEN <<Unknown(fieldName)>>
  ELSE LET fieldSchema == FieldSchema(schema, fieldName)
           typeErrors ==
             CASE fieldSchema.type = "string" ->
                    IF ~isString(value) THEN <<MustBe("a string", fieldName)>> ELSE <<>>
               [] fieldSchema.type = "array" ->
                    IF ~isArray(value) THEN <<MustBe("an array", fieldName)>>
                    ELSE IF fieldSchema.itemsType = "string"
                      THEN ItemErrors(fieldName, value.elems)
                      ELSE <<>>
               [] fieldSchema.type = "object" ->
                    IF ~isObject(value) THEN <<MustBe("an object", fieldName)>> ELSE <<>>
               [] OTHER -> <<>>
       IN typeErrors \o EnumError(fieldSchema, fieldName, value)

RECURSIVE validateRequiredFieldsOf(_, _)
validateRequiredFieldsOf(required, it) ==
  IF required = <<>> THEN <<>>
  ELSE (IF ~HasField(it, Head(required)) THEN <<Missing(Head(required))>> ELSE <<>>)
         \o validateRequiredFieldsOf(Tail(required), it)

validateRequiredFields(schema, it) ==
  validateRequiredFieldsOf(extractRequired(schema), it)

RECURSIVE validateFieldTypesOf(_, _, _)
validateFieldTypesOf(schemaFields, schema, it) ==
  IF schemaFields = <<>> THEN <<>>
  ELSE (IF HasField(it, Head(schemaFields))
          THEN createFieldValidator(schema, Head(schemaFields),
                                    FieldValue(it, Head(schemaFields)))
          ELSE <<>>)
         \o validateFieldTypesOf(Tail(schemaFields), schema, it)

validateFieldTypes(schema, it) ==
  validateFieldTypesOf(extractPropertyNames(schema), schema, it)

\* the keys that findUnknownFields never reports
AlwaysAllowed(keyStr) == keyStr = "name" \/ keyStr = "type"

findUnknownFields(schema, it) ==
  LET unknown == SelectSeq(it, LAMBDA f : ~AlwaysAllowed(f.key)
                                           /\ ~Declared(schema, f.key))
  IN [i \in 1..Len(unknown) |-> Unknown(unknown[i].key)]

validateRegistryItem(schema, it) ==
  LET requiredErrors == validateRequiredFields(schema, it)
      typeErrors == validateFieldTypes(schema, it)
      warnings == findUnknownFields(schema, it)
      errors == requiredErrors \o typeErrors
  IN [isValid |-> Len(errors) = 0, errors |-> errors, warnings |-> warnings]

\* the schemas of the model: name, type (with an enum) and files are
\* declared; $schema and meta are declared or not
SchemaProperties ==
  { <<Prop("name", "string", "", <<>>),
      Prop("type", "string", "", <<"registry:ui", "registry:lib">>),
      Prop("files", "array", "string", <<>>)>> \o s \o m :
      s \in {<<>>, <<Prop("$schema", "string", "", <<>>)>>},
      m \in {<<>>, <<Prop("meta", "object", "", <<>>)>>} }

Schemas ==
  [properties : SchemaProperties,
   required : {<<"name", "type">>, <<"name", "type", "files">>, <<"name", "meta">>}]

NoValue == [t |-> "absent", s |-> "", elems |-> <<>>]

ArrayValues == {Arr(e) : e \in SeqsUpTo({Str("a"), Num}, MaxArrayLen)}

\* an item is the list of its own keys with their values
ItemOf(n, t, f, s, m, x) ==
  SelectSeq(<<[key |-> "name", value |-> n], [key |-> "type", value |-> t],
              [key |-> "files", value |-> f], [key |-> "$schema", value |-> s],
              [key |-> "meta", value |-> m], [key |-> "extra", value |-> x]>>,
            LAMBDA e : e.value # NoValue)

ValidatedItems ==
  { ItemOf(n, t, f, s, m, x) :
      n \in {NoValue, Str("btn"), Num},
      t \in {NoValue, Str("registry:ui"), Str("bogus")},
      f \in {NoValue, Str("x")} \cup ArrayValues,
      s \in {NoValue, Str("url"), Num},
      m \in {NoValue, Obj, Str("m")},
      x \in {NoValue, Str("x")} }

NotValidated == [status |-> "none", isValid |-> FALSE, errors |-> <<>>, warnings |-> <<>>]

InitValidate ==
  /\ vschema \in Schemas
  /\ vitem \in ValidatedItems
  /\ vresult = NotValidated
  /\ ProcessorIdle
  /\ TreeIdle
  /\ CssIdle
  /\ AddIdle
  /\ ResolverIdle

\* processor.validate(item)
Validate ==
  /\ vresult.status = "none"
  /\ vresult' = LET r == validateRegistryItem(vschema, vitem)
                IN [status |-> "done", isValid |-> r.isValid,
                    errors |-> r.errors, warnings |-> r.warnings]
  /\ UNCHANGED <<vschema, vitem, pvars, tvars, cvars, avars, rvars>>

NextValidate == Validate

SpecValidate == InitValidate /\ [][NextValidate]_vars

-----------------------------------------------------------------------------
(* Path resolver (resolveTargetPath) on its own *)

Platforms == {"nextjs", "react", "universal"}

Roles == {"components", "lib", "blocks", "hooks", "ui"}

PathRests == {<<"button.tsx">>, <<"ui", "button.tsx">>}

\* file paths of registry items: registry/<platform>/<role>/..., a bare file
\* name and a path that ends with the role directory
FilePaths ==
  { <<"registry", pl, ro>> \o rest : pl \in Platforms, ro \in Roles, rest \in PathRests }
    \cup { <<"button.tsx">>, <<"registry", "nextjs", "components">> }

\* components.json absent, with the usual aliases, with aliases of its own
\* (one of them without "@/"), with an empty alias table, and with a "ui"
\* alias listed before the "components" alias
ResolverConfigs ==
  { NoConfig, AliasConfig,
    [loaded |-> TRUE,
     aliases |-> << [key |-> "components", value |-> <<"@", "app", "ui">>],
                    [key |-> "lib", value |-> <<"shared">>] >>],
    [loaded |-> TRUE, aliases |-> <<>>],
    [loaded |-> TRUE,
     aliases |-> << [key |-> "ui", value |-> <<"@", "components", "ui">>],
                    [key |-> "components", value |-> <<"@", "components">>] >>] }

Keywords == {"from", "import", "import(", "require(", "@import"}

Quotes == {"sq", "dq"}

\* a file content that imports the module at filePath twice with one
\* statement kind and one quote style: as written, and with a leading "@/"
ImportContents(filePath) ==
  { << Stmt(kw, q, filePath, q), Stmt(kw, q, <<"@">> \o filePath, q) >> :
      kw \in Keywords, q \in Quotes }

ResolverOptionSets ==
  [skipConflicts : {FALSE}, installDependencies : {TRUE},
   preserveSubdirectories : BOOLEAN]

InitResolver ==
  /\ options \in ResolverOptionSets
  /\ componentsConfig \in ResolverConfigs
  /\ rpath \in FilePaths
  /\ rtarget = [status |-> "none", path |-> <<>>]
  /\ rcontent \in ImportContents(rpath)
  /\ rrewritten = [status |-> "none", content |-> <<>>]
  /\ fs = [p \in FsPaths |-> IF p = <<>> THEN Dir ELSE Absent]
  /\ processedUrls = {}
  /\ item = [name |-> "item", files |-> <<>>, dependencies |-> <<>>,
             devDependencies |-> <<>>]
  /\ phase = "idle"
  /\ pendingFiles = <<>>
  /\ prompted = <<>>
  /\ result = NoResult
  /\ calls = 0
  /\ prompts = 0
  /\ answer = "none"
  /\ installs = 0
  /\ writes = <<>>
  /\ mkdirs = {}
  /\ fsBefore = fs
  /\ urlsBefore = {}
  /\ prevDone = FALSE
  /\ TreeIdle
  /\ CssIdle
  /\ AddIdle
  /\ ValidatorIdle

\* resolveTargetPath(file.path, finalOptions)
ResolveTargetPath ==
  /\ rtarget.status = "none"
  /\ rtarget' = [status |-> "done",
                 path |-> resolveTargetPath(rpath, componentsConfig, options)]
  /\ UNCHANGED <<rpath, rcontent, rrewritten, pvars, tvars, cvars, avars, vvars>>

\* this.replaceRegistryPaths(file.content)
ReplaceRegistryPaths ==
  /\ rrewritten.status = "none"
  /\ rrewritten' = [status |-> "done",
                    content |-> replaceRegistryPaths(rcontent, componentsConfig)]
  /\ UNCHANGED <<rpath, rtarget, rcontent, pvars, tvars, cvars, avars, vvars>>

NextResolver == ResolveTargetPath \/ ReplaceRegistryPaths

SpecResolver == InitResolver /\ [][NextResolver]_vars

-----------------------------------------------------------------------------
(* Properties of processRegistryItem *)

\* a call has been started and no other operation has followed it
CallObserved == calls > 0 /\ phase # "idle"

CallEnded == CallObserved /\ phase # "prompt"

AffirmativeAnswers == {"y", "Y", "yes", "Yes", "YES"}

HasText(file) == file.hasContent /\ file.content # <<>>

NotNull(file) == file.hasContent

\* what was at the target of a pending file when the call started
ExistedBefore(pf) == fsBefore[pf.targetPath].kind # "absent"

TrimEqualBefore(pf) ==
  /\ fsBefore[pf.targetPath].kind = "file"
  /\ trim(fsBefore[pf.targetPath].content) = trim(pf.processedContent)

IsConflict(pf) == ExistedBefore(pf) /\ ~TrimEqualBefore(pf)

PendingIdx == 1..Len(pendingFiles)

\* C1: when a conflict was detected and the answer is not y / yes (in any
\* case), the call throws 'User cancelled file overwrite' and has changed
\* nothing: no write, no directory, same processed-URL set, no installation.
C1_DeclineChangesNothing ==
  (CallEnded /\ prompts = 1 /\ answer \notin AffirmativeAnswers)
    => /\ phase = "cancelled"
       /\ result = Threw("User cancelled file overwrite")
       /\ fs = fsBefore
       /\ writes = <<>>
       /\ mkdirs = {}
       /\ processedUrls = urlsBefore
       /\ installs = 0

\* a declined batch that also held a new, non-conflicting file
C1_Witness ==
  /\ phase = "cancelled"
  /\ answer = ""
  /\ \E i \in PendingIdx : ~ExistedBefore(pendingFiles[i])
  /\ \E i \in PendingIdx : IsConflict(pendingFiles[i])
  /\ InstallInvoked(item) /\ options.installDependencies

\* C2: at most one question per call, exactly one when skipConflicts=false
\* and some pending file is a conflict (exists and not identical), and no
\* write or directory creation before the answer.
C2_OnePromptGatesWrites ==
  CallObserved
    => /\ prompts <= 1
       /\ (~options.skipConflicts /\ \E i \in PendingIdx : IsConflict(pendingFiles[i]))
            => prompts = 1
       /\ phase = "prompt" => (fs = fsBefore /\ writes = <<>> /\ mkdirs = {})

\* C3: the files listed in the prompt are exactly the pending files that
\* exist and are not trim-equal to the rewritten incoming content.
C3_PromptListsExactlyConflicts ==
  (CallObserved /\ ~options.skipConflicts)
    => Range(prompted) =
         {pendingFiles[i].targetPath : i \in {j \in PendingIdx : IsConflict(pendingFiles[j])}}

\* C4 (as stated): a second call in a row on the unchanged item, with
\* skipConflicts=false, detects no conflict and asks no question.
C4_SecondCallAsksNothing ==
  (CallObserved /\ prevDone /\ ~options.skipConflicts)
    => (prompts = 0 /\ prompted = <<>>)

\* two files of the item that resolve to the same target path have
\* trim-equal rewritten content
CollidingFilesAgree ==
  \A i, j \in PendingIdx :
    pendingFiles[i].targetPath = pendingFiles[j].targetPath
      => trim(pendingFiles[i].processedContent) = trim(pendingFiles[j].processedContent)

\* C4 (amended): the same, for items whose files that share a target path
\* have trim-equal rewritten content; every readable target is then
\* classified identical by the second call.
C4_Idempotent ==
  (CallObserved /\ prevDone /\ ~options.skipConflicts /\ CollidingFilesAgree)
    => /\ prompts = 0
       /\ prompted = <<>>
       /\ \A i \in PendingIdx :
            CanRead(fsBefore, pendingFiles[i].targetPath) => pendingFiles[i].identical

\* the second call follows a first call that overwrote a conflicting file
C4_Witness ==
  /\ CallEnded /\ prevDone /\ ~options.skipConflicts
  /\ calls = 2
  /\ Len(pendingFiles) = 2
  /\ \E i \in PendingIdx :
       pendingFiles[i].processedContent # pendingFiles[i].content
  /\ prompts = 0

\* C5: a pending file whose target exists with identical content is not
\* written: the target holds after the call what it held before.
C5_IdenticalNotWritten ==
  CallEnded
    => \A i \in PendingIdx :
         (ExistedBefore(pendingFiles[i]) /\ TrimEqualBefore(pendingFiles[i])
            /\ \A j \in PendingIdx :
                 pendingFiles[j].targetPath = pendingFiles[i].targetPath
                   => TrimEqualBefore(pendingFiles[j]))
           => /\ fs[pendingFiles[i].targetPath] = fsBefore[pendingFiles[i].targetPath]
              /\ \A k \in 1..Len(writes) : writes[k] # pendingFiles[i].targetPath

TextFiles == SelectSeq(item.files, HasText)

\* C6: with skipConflicts=true no question is ever asked, and a call that
\* returns has written every file that has content, in order, and returns
\* one record for each; a write is left out only when the target is a
\* directory, and then the call throws.
C6_SkipConflictsWritesAll ==
  (CallObserved /\ options.skipConflicts)
    => /\ prompts = 0
       /\ prompted = <<>>
       /\ phase # "prompt"
       /\ phase # "cancelled"
       /\ \A i \in 1..Len(TextFiles) :
            LET t == resolveTargetPath(TextFiles[i].path, componentsConfig, options)
            IN fsBefore[t].kind # "dir"
                 => \E k \in 1..Len(writes) : writes[k] = t
       /\ phase = "done"
            => /\ Len(result.processedFiles) = Len(TextFiles)
               /\ Len(writes) = Len(TextFiles)
               /\ \A i \in 1..Len(TextFiles) :
                    /\ result.processedFiles[i].originalPath = TextFiles[i].path
                    /\ result.processedFiles[i].content = TextFiles[i].content
                    /\ writes[i] = result.processedFiles[i].processedPath
                    /\ fsBefore[writes[i]].kind # "dir"

\* both files written over existing files with different content, unasked
C6_Witness ==
  /\ options.skipConflicts
  /\ phase = "done"
  /\ Len(writes) = 2
  /\ \A i \in PendingIdx : IsConflict(pendingFiles[i])
  /\ writes[1] # writes[2]

\* C7 (as stated): the files collected, written and returned are exactly the
\* files whose content is not null/absent, in declaration order.
C7_NonNullFilesProcessed ==
  phase = "done"
    => LET nn == SelectSeq(item.files, NotNull)
       IN /\ Len(result.processedFiles) = Len(nn)
          /\ \A i \in 1..Len(nn) : result.processedFiles[i].originalPath = nn[i].path

\* C7 (amended): the files collected, written and returned are exactly the
\* files whose content is a non-empty string, in declaration order; a file
\* with null, absent or empty content is not collected, written, counted as
\* a conflict or added to the processed-URL set.
C7_FilesWithTextProcessed ==
  CallObserved
    => /\ Len(pendingFiles) = Len(TextFiles)
       /\ \A i \in 1..Len(TextFiles) :
            /\ pendingFiles[i].originalPath = TextFiles[i].path
            /\ pendingFiles[i].content = TextFiles[i].content
       /\ Len(prompted) <= Len(TextFiles)
       /\ Len(writes) <= Len(TextFiles)
       /\ processedUrls \subseteq urlsBefore \cup {TextFiles[i].path : i \in 1..Len(TextFiles)}
       /\ phase = "done"
            => /\ Len(result.processedFiles) = Len(TextFiles)
               /\ \A i \in 1..Len(TextFiles) :
                    /\ result.processedFiles[i].originalPath = TextFiles[i].path
                    /\ result.processedFiles[i].content = TextFiles[i].content
                    /\ writes[i] = pendingFiles[i].targetPath
               /\ processedUrls =
                    urlsBefore \cup {TextFiles[i].path : i \in 1..Len(TextFiles)}

\* a null file declared before a file with content, which is written
C7_Witness ==
  /\ phase = "done"
  /\ Len(item.files) = 2
  /\ ~item.files[1].hasContent
  /\ Len(writes) = 1
  /\ item.files[1].path # item.files[2].path
  /\ processedUrls = {item.files[2].path}

\* C16: the installer runs at most once per call, only when
\* installDependencies is set and a dependency list is not empty, and only
\* after every pending file has been written; when it fails the call throws
\* and the files written stay on disk.
C16_InstallAfterWrites ==
  CallObserved
    => /\ installs <= 1
       /\ phase = "prompt" => installs = 0
       /\ installs = 1
            => /\ options.installDependencies
               /\ item.dependencies # <<>> \/ item.devDependencies # <<>>
               /\ phase \in {"done", "failed"}
               /\ Len(writes) = Len(pendingFiles)
               /\ \A i \in PendingIdx :
                    /\ writes[i] = pendingFiles[i].targetPath
                    /\ fs[writes[i]].kind = "file"
       /\ (phase = "failed" /\ result = Threw("install"))
            => /\ installs = 1
               /\ \A i \in PendingIdx :
                    \E j \in PendingIdx :
                      /\ pendingFiles[j].targetPath = pendingFiles[i].targetPath
                      /\ fs[pendingFiles[i].targetPath].content
                           = pendingFiles[j].processedContent

\* the installer fails after two new files were written; both stay on disk
C16_Witness ==
  /\ phase = "failed"
  /\ result = Threw("install")
  /\ Len(writes) = 2
  /\ writes[1] # writes[2]
  /\ \A i \in PendingIdx : ~ExistedBefore(pendingFiles[i])
  /\ \A i \in PendingIdx : fs[writes[i]].content = pendingFiles[i].processedContent

-----------------------------------------------------------------------------
(* Properties of the dependency graph builder *)

\* the registry dependencies an item is known to have (none is known of an
\* item that cannot be fetched)
DepsOf(n) == IF registry[n].ok THEN Range(registry[n].registryDependencies) ELSE {}

RECURSIVE Closure(_, _)
Closure(S, k) ==
  IF k = 0 THEN S ELSE Closure(S \cup UNION {DepsOf(n) : n \in S}, k - 1)

ReachableFrom(S) == Closure(S, Cardinality(Names))

Reachable == ReachableFrom({RootName})

\* some reachable item is its own ancestor
HasCycle == \E n \in Reachable : n \in ReachableFrom(DepsOf(n))

AllFetchable == \A n \in Reachable : registry[n].ok

Started == outcome.status # "none"

\* no fetch is outstanding any more
Quiescent == Started /\ \A id \in DOMAIN tcalls : tcalls[id].status # "fetching"

RECURSIVE NoAncestorRepeated(_, _)
NoAncestorRepeated(node, ancestors) ==
  /\ node.name \notin ancestors
  /\ \A k \in 1..Len(node.registryDependencies) :
       NoAncestorRepeated(node.registryDependencies[k], ancestors \cup {node.name})

\* C8: on an acyclic graph buildDependencyTree ends with a tree, and
\* calculateInstallationOrder returns every reachable name exactly once,
\* each after all of its own registry dependencies.
C8_InstallationOrderTopological ==
  /\ (Quiescent /\ ~HasCycle /\ AllFetchable) => outcome.status = "resolved"
  /\ order # <<>>
       => /\ \A i, j \in 1..Len(order) : order[i] = order[j] => i = j
          /\ Range(order) = Reachable
          /\ \A i \in 1..Len(order) :
               \A d \in Range(registry[order[i]].registryDependencies) :
                 \E j \in 1..(i - 1) : order[j] = d

\* a first declares b then c, b declares c: c is installed first, a last
C8_Witness ==
  /\ registry["a"].registryDependencies = <<"b", "c">>
  /\ registry["b"].registryDependencies = <<"c">>
  /\ order = <<"c", "b", "a">>

\* C9: the build rejects with a circular-dependency error exactly when a
\* reachable item is its own ancestor; a graph with a cycle never yields a
\* tree, no tree holds a node named like one of its ancestors, and an
\* acyclic graph with a shared dependency is not rejected.
C9_CycleDetection ==
  /\ (outcome.status = "rejected" /\ outcome.error.kind = "circular") => HasCycle
  /\ outcome.status = "resolved"
       => (~HasCycle /\ NoAncestorRepeated(outcome.tree, {}))
  /\ (Quiescent /\ AllFetchable)
       => IF HasCycle
            THEN outcome.status = "rejected" /\ outcome.error.kind = "circular"
            ELSE outcome.status = "resolved"

\* the diamond a -> b -> c, a -> c resolves to a tree that holds c twice
C9_Witness ==
  /\ registry["a"].registryDependencies = <<"b", "c">>
  /\ registry["b"].registryDependencies = <<"c">>
  /\ registry["c"].registryDependencies = <<>>
  /\ outcome.status = "resolved"
  /\ outcome.tree.registryDependencies[1].registryDependencies[1].name = "c"
  /\ outcome.tree.registryDependencies[2].name = "c"

\* C10: when the root item lists itself among its registry dependencies, the
\* build rejects with a circular-dependency error and the only fetch ever
\* issued is the initial fetch of the root item.
C10_SelfDependencyNoFurtherFetch ==
  (Started /\ registry[RootName].ok
     /\ RootName \in Range(registry[RootName].registryDependencies))
    => /\ fetches = <<RootName>>
       /\ tcalls[<<>>].status # "fetching"
            => (outcome.status = "rejected" /\ outcome.error.kind = "circular")

\* the names of a tree in depth-first pre-order, repeated occurrences kept
RECURSIVE PreOrderNames(_), PreOrderAll(_)
PreOrderNames(node) == <<node.name>> \o PreOrderAll(node.registryDependencies)

PreOrderAll(nodes) ==
  IF nodes = <<>> THEN <<>>
  ELSE PreOrderNames(Head(nodes)) \o PreOrderAll(Tail(nodes))

\* s without the later occurrences of each element
RECURSIVE FirstOccurrences(_)
FirstOccurrences(s) ==
  IF s = <<>> THEN <<>>
  ELSE LET r == FirstOccurrences(Front(s))
       IN IF s[Len(s)] \in Range(r) THEN r ELSE Append(r, s[Len(s)])

\* C11: flattenDependencyTree returns every name of the tree exactly once,
\* in depth-first pre-order of first occurrence with the root first, and the
\* names are those calculateInstallationOrder returns on the same tree.
C11_FlattenPreOrderDedup ==
  flat # <<>>
    => /\ \A i, j \in 1..Len(flat) : flat[i] = flat[j] => i = j
       /\ flat[1] = RootName
       /\ Range(flat) = Range(PreOrderNames(outcome.tree))
       /\ flat = FirstOccurrences(PreOrderNames(outcome.tree))
       /\ order # <<>> => (Range(order) = Range(flat) /\ Len(order) = Len(flat))

\* c occurs below b at depth 2 and again at depth 1; both functions called
C11_Witness ==
  /\ registry["a"].registryDependencies = <<"b", "c">>
  /\ registry["b"].registryDependencies = <<"c">>
  /\ flat = <<"a", "b", "c">>
  /\ order = <<"c", "b", "a">>

-----------------------------------------------------------------------------
(* Properties of the add command *)

Logged(kind, name) == \E i \in 1..Len(alog) : alog[i] = Ev(kind, name)

DepIdx == 1..Len(Dependencies)

\* the loop of processDependencies has handled its first dependency
LoopEntered == Len(Dependencies) > 0 /\ Logged("fetch", Dependencies[1])

\* C12: a dependency whose fetch or validation fails is logged and skipped
\* (no processRegistryItem call, no write, no installation for it); the
\* command does not end before every later dependency has been fetched, every
\* later usable dependency has been handed to processRegistryItem, and the
\* root item has been handed to processRegistryItem.
C12_FailedDependencySkipped ==
  /\ \A k \in DepIdx :
       LET d == Dependencies[k]
       IN (Logged("fetch", d) /\ DependencyEntry(d).status # "ok")
            => /\ Logged(IF DependencyEntry(d).status = "invalid"
                           THEN "invalidDependency" ELSE "failedDependency", d)
               /\ ~Logged("call", d)
               /\ ~Logged("write", d)
               /\ ~Logged("install", d)
               /\ apc = "exit"
                    => /\ Logged("call", RootName)
                       /\ \A j \in DepIdx :
                            j > k => /\ Logged("fetch", Dependencies[j])
                                     /\ DependencyEntry(Dependencies[j]).status = "ok"
                                          => Logged("call", Dependencies[j])
  /\ (apc = "exit" /\ LoopEntered)
       => /\ Logged("call", RootName)
          /\ \A k \in DepIdx : Logged("fetch", Dependencies[k])

\* the first of two dependencies cannot be fetched; the second and the root
\* are installed and the command succeeds
C12_Witness ==
  /\ apc = "exit"
  /\ aexit = Exited(0, "return")
  /\ Len(Dependencies) = 2
  /\ DependencyEntry(Dependencies[1]).status = "unfetchable"
  /\ Logged("failedDependency", Dependencies[1])
  /\ Logged("returned", Dependencies[2])
  /\ Logged("success", RootName)

\* the registry dependencies a component declares
ADepsOf(n) == Range(astore[n].item.registryDependencies)

RECURSIVE AClosure(_, _)
AClosure(S, k) ==
  IF k = 0 THEN S ELSE AClosure(S \cup UNION {ADepsOf(n) : n \in S}, k - 1)

\* the root item and its direct and indirect registry dependencies
AReachable == AClosure({RootName}, Cardinality(Names))

\* the components whose processRegistryItem call has returned, in order
Installed ==
  LET done == SelectSeq(alog, LAMBDA e : e.kind = "returned")
  IN [i \in 1..Len(done) |-> done[i].name]

\* C13: when the command succeeds and every component can be fetched and is
\* valid, every direct and indirect registry dependency of the root item has
\* been installed, each after the components it depends on, the root last.
C13_TransitiveDependenciesInstalled ==
  (aexit = Exited(0, "return")
     /\ \A n \in AReachable :
          /\ astore[n].status = "ok"
          /\ ~Logged("declined", n)
          /\ ~Logged("failedDependency", n))
    => /\ Range(Installed) = AReachable
       /\ Installed[Len(Installed)] = RootName
       /\ \A i \in 1..Len(Installed) :
            \A d \in ADepsOf(Installed[i]) :
              \E j \in 1..(i - 1) : Installed[j] = d

\* C14: when the user declines the question asked for the root item or for
\* one of its dependencies, the command reports a cancellation and nothing
\* else: no dependency failure is logged for that item, no error is reported,
\* nothing further is processed, and the process exits with status 0 through
\* the cancellation branch of handleAddCommandError.
C14_DeclineIsCancellation ==
  \A n \in Names :
    Logged("declined", n)
      => /\ ~Logged("failedDependency", n)
         /\ ~Logged("error", "")
         /\ alog[Len(alog)] = Ev("cancelled", n)
         /\ apc = "exit"
         /\ aexit = Exited(0, "handleAddCommandError")

\* C15: when the root item cannot be fetched or fails validation, the
\* command ends with exit status 1 and has fetched no dependency, called
\* processRegistryItem for nothing, written no file, left the stylesheet
\* alone and installed no package.
C15_RootFailureStopsEarly ==
  astore[RootName].status # "ok"
    => /\ apc \in {"start", "exit"}
       /\ apc = "exit" => aexit.code = 1
       /\ \A n \in Names :
            /\ n # RootName => ~Logged("fetch", n)
            /\ ~Logged("call", n)
            /\ ~Logged("write", n)
            /\ ~Logged("install", n)
       /\ fs = fsBefore
       /\ processedUrls = {}
       /\ globalsCss = cssBefore

\* an invalid root item that declares two dependencies and CSS variables
C15_Witness ==
  /\ astore[RootName].status = "invalid"
  /\ apc = "exit"
  /\ aexit = Exited(1, "validation")
  /\ Len(Dependencies) = 2
  /\ RootItem.cssVars.present
  /\ alog = <<Ev("fetch", RootName), Ev("invalidItem", RootName)>>

-----------------------------------------------------------------------------
(* Properties of processCSSVars *)

\* the number of '--key: value;' lines the entries call for
RECURSIVE VarCount(_)
VarCount(entries) ==
  IF entries = <<>> THEN 0
  ELSE (IF Head(entries).isObject THEN Len(Head(entries).group) ELSE 1)
         + VarCount(Tail(entries))

CssOld == IF cssBefore.kind = "file" THEN cssBefore.content ELSE <<>>

CssAdded == SubSeq(globalsCss.content, Len(CssOld) + 1, Len(globalsCss.content))

\* C17: processCSSVars leaves the stylesheet alone when cssVars is absent or
\* empty; otherwise the stylesheet is its previous content followed by one
\* block, which is the header and one '--key: value;' line for every variable
\* of every group.
C17_CssVarsAppended ==
  /\ cssResult = "threw" => globalsCss = cssBefore
  /\ cssResult = "returned"
       => IF ~cssVars.present \/ cssVars.entries = <<>>
            THEN globalsCss = cssBefore
            ELSE /\ globalsCss.kind = "file"
                 /\ IsPrefix(CssOld, globalsCss.content)
                 /\ Len(CssAdded) = 1 + VarCount(cssVars.entries)
                 /\ CssAdded[1] = CssHeader
                 /\ \A i \in 2..Len(CssAdded) : CssAdded[i].kind = "decl"
                 /\ \A k \in 1..Len(cssVars.entries) :
                      LET e == cssVars.entries[k]
                      IN e.isObject
                           => \A v \in 1..Len(e.group) :
                                \E i \in 2..Len(CssAdded) :
                                  CssAdded[i] = CssLine(e.group[v].key, e.group[v].value)

\* two groups are appended to a stylesheet that already held a block
C17_Witness ==
  /\ cssResult = "returned"
  /\ cssCalls = 2
  /\ cssBefore.kind = "file"
  /\ Len(cssBefore.content) > 1
  /\ Len(cssVars.entries) = 2
  /\ cssVars.entries[1].isObject /\ cssVars.entries[2].isObject
  /\ Len(CssAdded) = 4
  /\ globalsCss.content = cssBefore.content \o CssAdded

-----------------------------------------------------------------------------
(* Properties of the schema validator *)

\* the value has the type the property schema asks for
TypeOk(fieldSchema, value) ==
  CASE fieldSchema.type = "string" -> value.t = "string"
    [] fieldSchema.type = "array" ->
         /\ value.t = "array"
         /\ fieldSchema.itemsType = "string"
              => \A i \in 1..Len(value.elems) : value.elems[i].t = "string"
    [] fieldSchema.type = "object" -> value.t = "object"
    [] OTHER -> TRUE

EnumOk(fieldSchema, value) ==
  fieldSchema.enum = <<>>
    \/ (value.t = "string" /\ \E i \in 1..Len(fieldSchema.enum) : fieldSchema.enum[i] = value.s)

NoMissingRequired ==
  \A i \in 1..Len(vschema.required) :
    \E j \in 1..Len(vitem) : vitem[j].key = vschema.required[i]

\* every declared field of the item that is not a metadata field has the
\* declared type and, where an enum is declared, a member of it
NoTypeOrEnumError ==
  \A j \in 1..Len(vitem) :
    \A i \in 1..Len(vschema.properties) :
      (vschema.properties[i].name = vitem[j].key
         /\ vitem[j].key \notin {"$schema", "$id", "$ref", "metadata", "meta"})
        => /\ TypeOk(vschema.properties[i], vitem[j].value)
           /\ EnumOk(vschema.properties[i], vitem[j].value)

\* C18: isValid is true exactly when no required field is missing and no
\* declared field has a wrong type or a value outside its enum; the error
\* list holds no unknown-field message, the warnings are only unknown-field
\* messages, and they leave isValid alone.
C18_ValidIffNoErrors ==
  vresult.status = "done"
    => /\ vresult.isValid <=> (NoMissingRequired /\ NoTypeOrEnumError)
       /\ vresult.isValid <=> (vresult.errors = <<>>)
       /\ \A i \in 1..Len(vresult.errors) : vresult.errors[i].kind # "Unknown field"
       /\ \A i \in 1..Len(vresult.warnings) : vresult.warnings[i].kind = "Unknown field"
       /\ NoMissingRequired
            <=> \A i \in 1..Len(vresult.errors) :
                  vresult.errors[i].kind # "Missing required field"

\* a valid item with an undeclared field: one warning, no error
C18_Witness ==
  /\ vresult.status = "done"
  /\ vresult.isValid
  /\ vresult.warnings = <<Unknown("extra")>>
  /\ Len(vitem) = 4

\* C19: a field of the item that is named $schema, $id, $ref, metadata or
\* meta, or whose name starts with '$', is mentioned by no error and by no
\* warning, whether the schema declares it or not.
C19_MetadataFieldsExempt ==
  vresult.status = "done"
    => \A j \in 1..Len(vitem) :
         vitem[j].key \in {"$schema", "$id", "$ref", "metadata", "meta"}
           => /\ \A i \in 1..Len(vresult.errors) :
                   vresult.errors[i].field # vitem[j].key
              /\ \A i \in 1..Len(vresult.warnings) :
                   vresult.warnings[i].field # vitem[j].key

-----------------------------------------------------------------------------
(* Properties of the path resolver *)

\* the alias of a role, or its default, with a leading "@/" turned into "src/"
AliasDir(role) ==
  LET hits == {i \in 1..Len(componentsConfig.aliases) :
                 componentsConfig.aliases[i].key = role
                 /\ componentsConfig.aliases[i].value # <<>>}
      alias == IF hits = {} THEN <<"@", role>>
               ELSE componentsConfig.aliases[CHOOSE i \in hits : TRUE].value
  IN IF alias[1] = "@" THEN <<"src">> \o Tail(alias) ELSE alias

\* registry/<platform>/<role>/<rest>, with something after the role directory
UnderRole(role) ==
  /\ Len(rpath) > 3
  /\ rpath[1] = "registry"
  /\ rpath[3] = role

\* C20: with an alias table loaded, a path under registry/<platform>/components/
\* resolves to the components alias directory and a path under
\* registry/<platform>/lib/ (universal included) to the lib alias directory,
\* whatever the platform segment, "@/" being replaced by "src/" and the rest
\* of the path appended.
C20_AnyPlatformMapped ==
  (rtarget.status = "done" /\ componentsConfig.loaded)
    => /\ UnderRole("components")
            => rtarget.path = AliasDir("components") \o SubSeq(rpath, 4, Len(rpath))
       /\ UnderRole("lib")
            => rtarget.path = AliasDir("lib") \o SubSeq(rpath, 4, Len(rpath))

-----------------------------------------------------------------------------
(* Properties of the content rewriter *)

\* the table of roles and aliases in force: the aliases of components.json,
\* or the default roles when there are none
AliasTable ==
  IF componentsConfig.loaded /\ componentsConfig.aliases # <<>>
    THEN componentsConfig.aliases
    ELSE [i \in 1..Len(defaultMappings) |->
            [key |-> defaultMappings[i].directoryName,
             value |-> defaultMappings[i].targetAlias]]

KnownRoles == {AliasTable[i].key : i \in 1..Len(AliasTable)}

AliasOf(role) ==
  AliasTable[CHOOSE i \in 1..Len(AliasTable) : AliasTable[i].key = role].value

SubPath == SubSeq(rpath, 4, Len(rpath))

\* C21: for every statement kind, platform segment and known role, the import
\* of registry/<platform>/<role>/<sub> and the same import with a leading
\* "@/" are rewritten to the same statement, whose path is the alias of the
\* role followed by <sub>.
C21_BothFormsRewrittenToAlias ==
  rrewritten.status = "done"
    => \A role \in KnownRoles :
         UnderRole(role)
           => /\ rrewritten.content[1] = rrewritten.content[2]
              /\ rrewritten.content[1].path = AliasOf(role) \o SubPath

\* the directory an import path denotes: "@/" read as "src/"
Denotes(path) ==
  IF path # <<>> /\ path[1] = "@" THEN <<"src">> \o Tail(path) ELSE path

\* C26: for each of the roles components, lib, blocks, hooks and ui, and in
\* every configuration, the file registry/<platform>/<role>/<sub> is written
\* at the location that its rewritten import denotes.
C26_ResolverAgreesWithRewriter ==
  (rtarget.status = "done" /\ rrewritten.status = "done")
    => \A role \in Roles :
         UnderRole(role)
           => rtarget.path = Denotes(rrewritten.content[1].path)

\* C27: a statement the rewriter changes opens and closes its string literal
\* with the same quote character and keeps the sub-path after the matched
\* prefix, for every statement kind and either original quote style.
C27_RewrittenStatementWellFormed ==
  rrewritten.status = "done"
    => \A i \in 1..Len(rcontent) :
         rrewritten.content[i] # rcontent[i]
           => /\ rrewritten.content[i].kw = rcontent[i].kw
              /\ rrewritten.content[i].open = rrewritten.content[i].close
              /\ rrewritten.content[i].path # rcontent[i].path
                   => /\ Len(rpath) > 3
                      /\ Len(rrewritten.content[i].path) >= Len(SubPath)
                      /\ SubSeq(rrewritten.content[i].path,
                                Len(rrewritten.content[i].path) - Len(SubPath) + 1,
                                Len(rrewritten.content[i].path)) = SubPath

-----------------------------------------------------------------------------
(* Further properties of the processor *)

\* the current call got as far as the write phase and has ended
WritePhaseEnded == CallEnded /\ phase \in {"done", "failed"}

\* writeFileSync on an existing directory throws
WriteThrows(pf) == fsBefore[pf.targetPath].kind = "dir"

\* C22: in the write phase the directory is created and the write attempted
\* for every pending file even if the write of another file throws: a failed
\* write makes processRegistryItem throw, and every sibling whose own write
\* does not throw is on disk with its directory.
C22_SiblingsWrittenDespiteFailure ==
  WritePhaseEnded
    => /\ \A i \in PendingIdx :
            LET t == pendingFiles[i].targetPath
            IN /\ fs[Front(t)].kind = "dir"
               /\ ~WriteThrows(pendingFiles[i])
                    => /\ fs[t].kind = "file"
                       /\ \E k \in 1..Len(writes) : writes[k] = t
       /\ Len(writes) = Cardinality({i \in PendingIdx : ~WriteThrows(pendingFiles[i])})
       /\ (\E i \in PendingIdx : WriteThrows(pendingFiles[i]))
            <=> result = Threw("io")

\* the write of the first file throws and the second file is written
C22_Witness ==
  /\ result = Threw("io")
  /\ Len(pendingFiles) = 2
  /\ WriteThrows(pendingFiles[1])
  /\ writes = <<pendingFiles[2].targetPath>>
  /\ fsBefore[pendingFiles[2].targetPath].kind = "absent"
  /\ fs[pendingFiles[2].targetPath].kind = "file"

\* C23: the processed-URL set is empty before the first call, no
\* processRegistryItem call removes an entry, and after a call that returned
\* it holds the virtual path of every file the call wrote; getProcessedUrls
\* and the processedUrls field of the result report this set.
C23_ProcessedUrlsGrow ==
  /\ calls = 0 => processedUrls = {}
  /\ CallObserved => urlsBefore \subseteq processedUrls
  /\ (CallEnded /\ result.status = "returned")
       => /\ \A i \in PendingIdx : pendingFiles[i].originalPath \in processedUrls
          /\ \A k \in 1..Len(result.processedFiles) :
                result.processedFiles[k].originalPath \in processedUrls
          /\ result.processedUrls = processedUrls
          /\ getProcessedUrls = result.processedUrls

\* a second call returned on a processor whose set was not empty, having
\* written two files with distinct virtual paths
C23_Witness ==
  /\ calls = 2
  /\ result.status = "returned"
  /\ urlsBefore # {}
  /\ Len(writes) = 2
  /\ Cardinality(processedUrls) = 2

\* C24: a file whose virtual path was in the processed-URL set when the call
\* started is not collected, not listed in the question and not written by
\* that call.
C24_ProcessedNotReprocessed ==
  CallObserved
    => /\ \A i \in PendingIdx : pendingFiles[i].originalPath \notin urlsBefore
       /\ \A j \in 1..Len(item.files) :
            item.files[j].path \in urlsBefore
              => LET t == resolveTargetPath(item.files[j].path, componentsConfig,
                                           options)
                 IN /\ \A k \in 1..Len(prompted) : prompted[k] # t
                    /\ \A k \in 1..Len(writes) : writes[k] # t

\* C25: with skipConflicts=false, a file that existed when the call started
\* with content different (after trim) from the incoming rewritten content is
\* overwritten only after the user answered y / yes to the question of that
\* call, also when the existing file cannot be read.
C25_NoOverwriteWithoutYes ==
  (CallEnded /\ ~options.skipConflicts)
    => \A i \in PendingIdx :
         ( /\ fsBefore[pendingFiles[i].targetPath].kind = "file"
           /\ ~TrimEqualBefore(pendingFiles[i])
           /\ \E k \in 1..Len(writes) : writes[k] = pendingFiles[i].targetPath )
           => prompts = 1 /\ answer \in AffirmativeAnswers

LastFor(i) ==
  CHOOSE j \in PendingIdx :
    /\ pendingFiles[j].targetPath = pendingFiles[i].targetPath
    /\ \A k \in PendingIdx :
         pendingFiles[k].targetPath = pendingFiles[i].targetPath => k <= j

-----------------------------------------------------------------------------
(* Further properties of the add command *)

\* C29: a registry dependency written as a name is requested at the address
\* at which the add command requests a root component of that name, and so
\* resolves to the same item: when that item is usable, it is handed to
\* processRegistryItem.
C29_DependencyFetchedLikeRoot ==
  \A k \in DepIdx :
    LET d == Dependencies[k]
    IN (aform = "name" /\ Logged("fetch", d))
         => /\ DependencyLocation(Written(d)) = RootLocation(Written(d))
            /\ DependencyEntry(d) = Fetched(RootLocation(Written(d)))
            /\ astore[d].status = "ok" => Logged("call", d)

\* the events that end the processing of a dependency
Terminal == {"returned", "failedDependency", "invalidDependency"}

\* the question of alog[i] has not been answered
Outstanding(i) ==
  /\ alog[i].kind = "question"
  /\ \A j \in (i + 1)..Len(alog) : alog[j].name # alog[i].name

\* C30: addCommand processes one item at a time: the events of a dependency
\* (fetch, validation, question, writes, installation) are consecutive and
\* end before the fetch of the next dependency, the root item is handed to
\* processRegistryItem only after the last event of every dependency, and at
\* most one question is open, during which nothing else happens.
C30_OneItemAtATime ==
  /\ \A i, j \in 1..Len(alog) :
       (i < j /\ alog[i].name = alog[j].name /\ alog[i].name \in Range(Dependencies))
         => \A m \in i..j : alog[m].name = alog[i].name
  /\ \A i \in 2..Len(alog) :
       (alog[i].kind = "fetch" \/ alog[i] = Ev("call", RootName))
         => \/ alog[i - 1] = Ev("fetch", RootName)
            \/ /\ alog[i - 1].kind \in Terminal
               /\ alog[i - 1].name \in Range(Dependencies)
  /\ \A i, j \in 1..Len(alog) :
       (alog[i].name = RootName /\ alog[i].kind \notin {"fetch", "invalidItem"}
          /\ alog[j].name \in Range(Dependencies))
         => j < i
  /\ \A i \in 1..Len(alog) :
       Outstanding(i) => (i = Len(alog) /\ apc \in {"depPrompt", "rootPrompt"})
  /\ Cardinality({i \in 1..Len(alog) : Outstanding(i)}) <= 1

\* two dependencies and the root item each asked their question in turn and
\* were written
C30_Witness ==
  /\ aexit = Exited(0, "return")
  /\ Len(Dependencies) = 2
  /\ \A k \in DepIdx : /\ Logged("question", Dependencies[k])
                        /\ Logged("write", Dependencies[k])
  /\ Logged("question", RootName)
  /\ Logged("write", RootName)

====
